---- MODULE Spec2Model ----
(***************************************************************************)
(* Block-cipher modes of operation (ECB, CBC, CTR) and the padding scheme  *)
(* of src/src/main.rs, with the helpers of src/src/utils.rs.               *)
(*                                                                         *)
(* Byte vectors are sequences over 0..255.  A call that panics in Rust     *)
(* (slice or index out of range) yields the record Panic; a call that      *)
(* returns yields Ok(v).  The random source (rand::thread_rng) is a        *)
(* nondeterministic choice made by the action that calls the encryptor.    *)
(***************************************************************************)
EXTENDS Integers, Sequences, FiniteSets, TLC

BLOCK_SIZE == 16

NONCE_SIZE == 8

\* Longest caller-supplied byte vector explored.
MaxLen == 33

VARIABLES plain_text, key, rand, padded, cipher_text, dec_blocks,
          result, mode, pc, alter, changed

vars == <<plain_text, key, rand, padded, cipher_text, dec_blocks,
          result, mode, pc, alter, changed>>

----------------------------------------------------------------------------
(* Outcomes of a call *)

Ok(v) == [panic |-> FALSE, val |-> v]

Panic == [panic |-> TRUE, val |-> <<>>]

----------------------------------------------------------------------------
(* u8 arithmetic *)

Bit(v, k) == (v \div (2 ^ k)) % 2

\* x ^ y on u8 (src/src/utils.rs:15, src/src/main.rs:246,275)
xor_u8(x, y) ==
    ((Bit(x, 0) + Bit(y, 0)) % 2)
  + ((Bit(x, 1) + Bit(y, 1)) % 2) * 2
  + ((Bit(x, 2) + Bit(y, 2)) % 2) * 4
  + ((Bit(x, 3) + Bit(y, 3)) % 2) * 8
  + ((Bit(x, 4) + Bit(y, 4)) % 2) * 16
  + ((Bit(x, 5) + Bit(y, 5)) % 2) * 32
  + ((Bit(x, 6) + Bit(y, 6)) % 2) * 64
  + ((Bit(x, 7) + Bit(y, 7)) % 2) * 128

\* utils::xor_block_bytes: byte-wise XOR of two blocks
xor_block_bytes(block1, block2) ==
    [i \in 1..BLOCK_SIZE |-> xor_u8(block1[i], block2[i])]

----------------------------------------------------------------------------
(* The single-block primitive.  Aes128 comes from the external `aes` crate; *)
(* it is represented by a keyed bijection on 16-byte blocks built like one  *)
(* cipher round: a byte substitution, a byte rotation and a key addition.   *)
(* aes_decrypt is its exact inverse and differs from aes_encrypt.           *)

SubByte(x) == (5 * x + 99) % 256

InvSubByte(y) == (205 * (y + 256 - 99)) % 256

RotL(i) == (i % BLOCK_SIZE) + 1

RotR(i) == ((i + BLOCK_SIZE - 2) % BLOCK_SIZE) + 1

aes_encrypt(data, k) ==
    [i \in 1..BLOCK_SIZE |-> xor_u8(SubByte(data[RotL(i)]), k[i])]

aes_decrypt(data, k) ==
    [i \in 1..BLOCK_SIZE |-> InvSubByte(xor_u8(data[RotR(i)], k[RotR(i)]))]

----------------------------------------------------------------------------
(* Padding and blocking *)

\* Off-by-one guard: a pad that spans the whole buffer is not removed.
un_pad_strict_len(data) ==
    IF data # <<>>
    THEN LET pad_len == data[Len(data)]
             len == Len(data)
         IN  IF pad_len < len /\ pad_len <= BLOCK_SIZE
             THEN SubSeq(data, 1, len - pad_len)
             ELSE data
    ELSE data

\* No extra block when the length is already a multiple of the block size.
pad_no_full_block(data) ==
    LET number_bytes_to_pad ==
            (BLOCK_SIZE - (Len(data) % BLOCK_SIZE)) % BLOCK_SIZE
    IN  data \o [i \in 1..number_bytes_to_pad |-> number_bytes_to_pad % 256]

pad(data) ==
    LET number_bytes_to_pad == BLOCK_SIZE - (Len(data) % BLOCK_SIZE)
    IN  data \o [i \in 1..number_bytes_to_pad |-> number_bytes_to_pad % 256]

\* data[i..i + BLOCK_SIZE] panics as soon as a block would run past the end,
\* which happens exactly when the length is not a multiple of BLOCK_SIZE.
group(data) ==
    IF Len(data) % BLOCK_SIZE # 0
    THEN Panic
    ELSE Ok([b \in 1..(Len(data) \div BLOCK_SIZE) |->
                SubSeq(data, BLOCK_SIZE * (b - 1) + 1, BLOCK_SIZE * b)])

un_group(blocks) ==
    [i \in 1..(BLOCK_SIZE * Len(blocks)) |->
        blocks[((i - 1) \div BLOCK_SIZE) + 1][((i - 1) % BLOCK_SIZE) + 1]]

un_pad(data) ==
    IF data # <<>>
    THEN LET pad_len == data[Len(data)]
             len == Len(data)
         IN  IF pad_len <= len /\ pad_len <= BLOCK_SIZE
             THEN SubSeq(data, 1, len - pad_len)
             ELSE data
    ELSE data

----------------------------------------------------------------------------
(* ECB *)

\* The padding is left on the returned bytes.
ecb_decrypt_keeps_pad(ct, k) ==
    LET blocks == group(ct)
    IN  IF blocks.panic
        THEN Panic
        ELSE Ok(un_group([b \in 1..Len(blocks.val) |->
                            aes_decrypt(blocks.val[b], k)]))

ecb_encrypt(pt, k) ==
    LET padded_text == pad(pt)
        blocks == group(padded_text)
    IN  IF blocks.panic
        THEN Panic
        ELSE LET encrypted_blocks ==
                     [b \in 1..Len(blocks.val) |-> aes_encrypt(blocks.val[b], k)]
             IN  Ok(un_group(encrypted_blocks))

ecb_decrypt(ct, k) ==
    LET blocks == group(ct)
    IN  IF blocks.panic
        THEN Panic
        ELSE LET decrypted_blocks ==
                     [b \in 1..Len(blocks.val) |-> aes_decrypt(blocks.val[b], k)]
                 decrypted_data == un_group(decrypted_blocks)
             IN  Ok(un_pad(decrypted_data))

----------------------------------------------------------------------------
(* CBC.  rand_init_vector is the value utils::create_rand_init_vector()    *)
(* returned for this call.                                                 *)

\* The state of the `for block in blocks` loop of cbc_encrypt after all
\* iterations: the blocks pushed so far, the IV first.
cbc_encrypt_loop(blocks, rand_init_vector, k) ==
    LET st[n \in 0..Len(blocks)] ==
            IF n = 0
            THEN [previous_block |-> rand_init_vector,
                  encrypted_blocks |-> <<rand_init_vector>>]
            ELSE LET before == st[n - 1]
                     xored_block == xor_block_bytes(blocks[n], before.previous_block)
                     encrypted_block == aes_encrypt(xored_block, k)
                 IN  [previous_block |-> encrypted_block,
                      encrypted_blocks |->
                          Append(before.encrypted_blocks, encrypted_block)]
    IN  st[Len(blocks)].encrypted_blocks

\* The IV is used for chaining but not written to the output.
cbc_encrypt_drops_iv(pt, rand_init_vector, k) ==
    LET padded_text == pad(pt)
        blocks == group(padded_text)
    IN  IF blocks.panic
        THEN Panic
        ELSE Ok(un_group(Tail(cbc_encrypt_loop(blocks.val, rand_init_vector, k))))

cbc_encrypt(pt, rand_init_vector, k) ==
    LET padded_text == pad(pt)
        blocks == group(padded_text)
    IN  IF blocks.panic
        THEN Panic
        ELSE Ok(un_group(cbc_encrypt_loop(blocks.val, rand_init_vector, k)))

\* Chains on the decrypted block instead of the ciphertext block.
cbc_decrypt_loop_chain_plain(encrypted_blocks, rand_init_vector, k) ==
    LET st[n \in 0..Len(encrypted_blocks)] ==
            IF n = 0
            THEN [previous_block |-> rand_init_vector, decrypted_blocks |-> <<>>]
            ELSE LET before == st[n - 1]
                     block == encrypted_blocks[n]
                     decrypted_block == aes_decrypt(block, k)
                     xored_block ==
                         xor_block_bytes(decrypted_block, before.previous_block)
                 IN  [previous_block |-> xored_block,
                      decrypted_blocks |->
                          Append(before.decrypted_blocks, xored_block)]
    IN  st[Len(encrypted_blocks)].decrypted_blocks

\* previous_block is never advanced: every block is un-XORed with the IV.
cbc_decrypt_loop_fixed_iv(encrypted_blocks, rand_init_vector, k) ==
    [n \in 1..Len(encrypted_blocks) |->
        xor_block_bytes(aes_decrypt(encrypted_blocks[n], k), rand_init_vector)]

\* The `for block in encrypted_blocks` loop of cbc_decrypt: the value of
\* decrypted_blocks when the loop ends.
cbc_decrypt_loop(encrypted_blocks, rand_init_vector, k) ==
    LET st[n \in 0..Len(encrypted_blocks)] ==
            IF n = 0
            THEN [previous_block |-> rand_init_vector, decrypted_blocks |-> <<>>]
            ELSE LET before == st[n - 1]
                     block == encrypted_blocks[n]
                     decrypted_block == aes_decrypt(block, k)
                     xored_block ==
                         xor_block_bytes(decrypted_block, before.previous_block)
                 IN  [previous_block |-> block,
                      decrypted_blocks |->
                          Append(before.decrypted_blocks, xored_block)]
    IN  st[Len(encrypted_blocks)].decrypted_blocks

\* A ciphertext without an IV block is answered with the empty plaintext.
cbc_decrypt_blocks_lenient(ct, k) ==
    LET blocks == group(ct)
    IN  IF blocks.panic \/ blocks.val = <<>>
        THEN Ok(<<>>)
        ELSE Ok(cbc_decrypt_loop(Tail(blocks.val), blocks.val[1], k))

\* cbc_decrypt up to the end of its loop: Ok(decrypted_blocks), or Panic when
\* group panics or blocks[0] is out of range.
cbc_decrypt_blocks(ct, k) ==
    LET blocks == group(ct)
    IN  IF blocks.panic
        THEN Panic
        ELSE IF Len(blocks.val) = 0
        THEN Panic
        ELSE LET rand_init_vector == blocks.val[1]
                 encrypted_blocks == Tail(blocks.val)
             IN  Ok(cbc_decrypt_loop(encrypted_blocks, rand_init_vector, k))

cbc_decrypt(ct, k) ==
    LET decrypted == cbc_decrypt_blocks(ct, k)
    IN  IF decrypted.panic
        THEN Panic
        ELSE LET decrypted_data == un_group(decrypted.val)
             IN  Ok(un_pad(decrypted_data))

----------------------------------------------------------------------------
(* CTR.  nonce is the value utils::create_rand_nonce() returned for this   *)
(* call.                                                                   *)

Min(a, b) == IF a <= b THEN a ELSE b

\* slice.chunks(BLOCK_SIZE): consecutive chunks, the last possibly shorter.
chunks(data) ==
    [c \in 1..((Len(data) + BLOCK_SIZE - 1) \div BLOCK_SIZE) |->
        SubSeq(data, BLOCK_SIZE * (c - 1) + 1, Min(BLOCK_SIZE * c, Len(data)))]

\* u64::to_le_bytes: byte j (from 0) is (counter >> 8j) & 0xff.
to_le_bytes(counter) ==
    LET shifted[j \in 1..8] == IF j = 1 THEN counter ELSE shifted[j - 1] \div 256
    IN  [j \in 1..8 |-> shifted[j] % 256]

\* counter_block = nonce | counter
counter_block(nonce, counter) == nonce \o to_le_bytes(counter)

\* block[j] ^ encrypted_counter[j] for j in 0..block.len()
xor_chunk(block, encrypted_counter) ==
    [j \in 1..Len(block) |-> xor_u8(block[j], encrypted_counter[j])]

\* Every chunk is written as a whole keystream-sized block.
ctr_encrypt_full_blocks(pt, nonce, k) ==
    LET blocks == chunks(pt)
        st[n \in 0..Len(blocks)] ==
            IF n = 0
            THEN nonce
            ELSE LET encrypted_counter == aes_encrypt(counter_block(nonce, n - 1), k)
                     block == [j \in 1..BLOCK_SIZE |->
                                  IF j <= Len(blocks[n]) THEN blocks[n][j] ELSE 0]
                 IN  st[n - 1] \o xor_chunk(block, encrypted_counter)
    IN  Ok(st[Len(blocks)])

ctr_encrypt(pt, nonce, k) ==
    LET blocks == chunks(pt)
        st[n \in 0..Len(blocks)] ==
            IF n = 0
            THEN nonce
            ELSE LET counter == n - 1
                     encrypted_counter == aes_encrypt(counter_block(nonce, counter), k)
                     encrypted_block == xor_chunk(blocks[n], encrypted_counter)
                 IN  st[n - 1] \o encrypted_block
    IN  Ok(st[Len(blocks)])

\* &cipher_text[..NONCE_SIZE] panics on fewer than NONCE_SIZE bytes.
ctr_decrypt(ct, k) ==
    IF Len(ct) < NONCE_SIZE
    THEN Panic
    ELSE LET nonce == SubSeq(ct, 1, NONCE_SIZE)
             blocks == chunks(SubSeq(ct, NONCE_SIZE + 1, Len(ct)))
             st[n \in 0..Len(blocks)] ==
                 IF n = 0
                 THEN <<>>
                 ELSE LET counter == n - 1
                          encrypted_counter ==
                              aes_decrypt(counter_block(nonce, counter), k)
                          decrypted_block == xor_chunk(blocks[n], encrypted_counter)
                      IN  st[n - 1] \o decrypted_block
         IN  Ok(st[Len(blocks)])

----------------------------------------------------------------------------
(* Inputs explored *)

Byte == 0..255

\* Values of the last byte of a caller's buffer: zero, pad-like values up to
\* BLOCK_SIZE, and values above it.
LastBytes == {0, 1, 5, BLOCK_SIZE, BLOCK_SIZE + 1, 255}

\* Stride 0 repeats one byte (equal blocks); stride 37 makes all blocks differ.
Strides == {0, 37}

MkInput(n, stride, last) ==
    [i \in 1..n |-> IF i = n THEN last ELSE (65 + i * stride) % 256]

Inputs == {MkInput(n, s, l) : n \in 0..MaxLen, s \in Strides, l \in LastBytes}

\* The all-zero key of the tests (KEY) and one other key.
Keys == {[i \in 1..BLOCK_SIZE |-> 0], [i \in 1..BLOCK_SIZE |-> (11 * i + 3) % 256]}

IVs == {[i \in 1..BLOCK_SIZE |-> 0], [i \in 1..BLOCK_SIZE |-> (29 * i + 7) % 256]}

Nonces == {[i \in 1..NONCE_SIZE |-> 0], [i \in 1..NONCE_SIZE |-> (53 * i + 200) % 256]}

\* Lengths a ciphertext is cut to before it is handed to a decryptor.
TruncLens == {0, 1, NONCE_SIZE - 1, NONCE_SIZE, NONCE_SIZE + 1,
              BLOCK_SIZE - 1, BLOCK_SIZE, BLOCK_SIZE + 1, 2 * BLOCK_SIZE}

\* Byte positions and XOR masks used to change a ciphertext block.
ChangePositions == {1, BLOCK_SIZE}

ChangeMasks == {1, 128, 255}

----------------------------------------------------------------------------
(* The callers: one forward call on the input, optionally a change of the  *)
(* bytes in transit, then the inverse call.                                *)

Init ==
    /\ plain_text \in Inputs
    /\ key \in Keys
    /\ rand = <<>>
    /\ padded = <<>>
    /\ cipher_text = <<>>
    /\ dec_blocks = <<>>
    /\ result = Ok(<<>>)
    /\ mode = "none"
    /\ pc = "start"
    /\ alter = "none"
    /\ changed = 0

Pad ==
    /\ pc = "start"
    /\ padded' = pad(plain_text)
    /\ mode' = "pad"
    /\ pc' = "padded"
    /\ UNCHANGED <<plain_text, key, rand, cipher_text, dec_blocks, result,
                   alter, changed>>

UnPad ==
    /\ pc = "padded"
    /\ result' = Ok(un_pad(padded))
    /\ pc' = "unpadded"
    /\ UNCHANGED <<plain_text, key, rand, padded, cipher_text, dec_blocks,
                   mode, alter, changed>>

\* un_pad called on a buffer that pad did not produce.
UnPadRaw ==
    /\ pc = "start"
    /\ result' = Ok(un_pad(plain_text))
    /\ mode' = "un_pad"
    /\ pc' = "unpadded"
    /\ UNCHANGED <<plain_text, key, rand, padded, cipher_text, dec_blocks,
                   alter, changed>>

EcbEncrypt ==
    /\ pc = "start"
    /\ LET r == ecb_encrypt(plain_text, key)
       IN  /\ ~r.panic
           /\ cipher_text' = r.val
    /\ mode' = "ecb"
    /\ pc' = "encrypted"
    /\ UNCHANGED <<plain_text, key, rand, padded, dec_blocks, result,
                   alter, changed>>

EcbDecrypt ==
    /\ pc = "encrypted"
    /\ mode = "ecb"
    /\ result' = ecb_decrypt(cipher_text, key)
    /\ pc' = "decrypted"
    /\ UNCHANGED <<plain_text, key, rand, padded, cipher_text, dec_blocks,
                   mode, alter, changed>>

CbcEncrypt ==
    /\ pc = "start"
    /\ \E rand_init_vector \in IVs :
          LET r == cbc_encrypt(plain_text, rand_init_vector, key)
          IN  /\ ~r.panic
              /\ cipher_text' = r.val
              /\ rand' = rand_init_vector
    /\ mode' = "cbc"
    /\ pc' = "encrypted"
    /\ UNCHANGED <<plain_text, key, padded, dec_blocks, result, alter, changed>>

CbcDecrypt ==
    /\ pc = "encrypted"
    /\ mode = "cbc"
    /\ LET d == cbc_decrypt_blocks(cipher_text, key)
       IN  dec_blocks' = IF d.panic THEN <<>> ELSE d.val
    /\ result' = cbc_decrypt(cipher_text, key)
    /\ pc' = "decrypted"
    /\ UNCHANGED <<plain_text, key, rand, padded, cipher_text, mode,
                   alter, changed>>

CtrEncrypt ==
    /\ pc = "start"
    /\ \E nonce \in Nonces :
          LET r == ctr_encrypt(plain_text, nonce, key)
          IN  /\ ~r.panic
              /\ cipher_text' = r.val
              /\ rand' = nonce
    /\ mode' = "ctr"
    /\ pc' = "encrypted"
    /\ UNCHANGED <<plain_text, key, padded, dec_blocks, result, alter, changed>>

CtrDecrypt ==
    /\ pc = "encrypted"
    /\ mode = "ctr"
    /\ result' = ctr_decrypt(cipher_text, key)
    /\ pc' = "decrypted"
    /\ UNCHANGED <<plain_text, key, rand, padded, cipher_text, dec_blocks,
                   mode, alter, changed>>

\* The ciphertext reaches the decryptor cut to its first n bytes.
Truncate ==
    /\ pc = "encrypted"
    /\ alter = "none"
    /\ \E n \in TruncLens :
          /\ n < Len(cipher_text)
          /\ cipher_text' = SubSeq(cipher_text, 1, n)
    /\ alter' = "trunc"
    /\ UNCHANGED <<plain_text, key, rand, padded, dec_blocks, result, mode,
                   pc, changed>>

\* One byte of CBC ciphertext block i (the IV being block 0) is changed.
ChangeBlock ==
    /\ pc = "encrypted"
    /\ mode = "cbc"
    /\ alter = "none"
    /\ \E i \in 1..((Len(cipher_text) \div BLOCK_SIZE) - 1),
          pos \in ChangePositions, mask \in ChangeMasks :
          /\ cipher_text' =
                [cipher_text EXCEPT ![BLOCK_SIZE * i + pos] = xor_u8(@, mask)]
          /\ changed' = i
    /\ alter' = "block"
    /\ UNCHANGED <<plain_text, key, rand, padded, dec_blocks, result, mode, pc>>

Next ==
    \/ Pad
    \/ UnPad
    \/ UnPadRaw
    \/ EcbEncrypt
    \/ EcbDecrypt
    \/ CbcEncrypt
    \/ CbcDecrypt
    \/ CtrEncrypt
    \/ CtrDecrypt
    \/ Truncate
    \/ ChangeBlock

Spec == Init /\ [][Next]_vars

TypeOK ==
    /\ plain_text \in Seq(Byte)
    /\ cipher_text \in Seq(Byte)
    /\ padded \in Seq(Byte)
    /\ result.panic \in BOOLEAN
    /\ result.val \in Seq(Byte)
    /\ \A b \in 1..Len(dec_blocks) : dec_blocks[b] \in Seq(Byte)

----------------------------------------------------------------------------
(* Properties *)

\* ceil(a / b)
Ceil(a, b) == (a + b - 1) \div b

\* The blocks cbc_encrypt and ecb_encrypt work on: group(pad(plain_text)).
PaddedBlocks == group(pad(plain_text)).val

\* The forward call's output reached the inverse call as produced.
RoundTripDone(m) == mode = m /\ pc = "decrypted" /\ alter = "none"

\* C1: CTR round-trip.  After ctr_encrypt and then ctr_decrypt of the
\* unchanged ciphertext under the same key, the result is the plaintext.
C1_CtrRoundTrip ==
    RoundTripDone("ctr") => result = Ok(plain_text)

\* C2: CBC round-trip.  After cbc_encrypt (any IV drawn) and then cbc_decrypt
\* of the unchanged ciphertext under the same key, the result is the plaintext.
C2_CbcRoundTrip ==
    RoundTripDone("cbc") => result = Ok(plain_text)

C2_Witness ==
    /\ RoundTripDone("cbc")
    /\ Len(plain_text) = 2 * BLOCK_SIZE
    /\ plain_text[Len(plain_text)] = BLOCK_SIZE
    /\ rand # [i \in 1..BLOCK_SIZE |-> 0]
    /\ result = Ok(plain_text)

\* C3: ECB round-trip.  After ecb_encrypt and then ecb_decrypt of the
\* unchanged ciphertext under the same key, the result is the plaintext.
C3_EcbRoundTrip ==
    RoundTripDone("ecb") => result = Ok(plain_text)

C3_Witness ==
    /\ RoundTripDone("ecb")
    /\ Len(plain_text) = BLOCK_SIZE
    /\ plain_text[Len(plain_text)] = 1
    /\ result = Ok(plain_text)

\* C4: padding round-trip.  un_pad(pad(p)) is p, and pad(p) has a length that
\* is a multiple of BLOCK_SIZE and strictly greater than the length of p.
C4_PadRoundTrip ==
    /\ (mode = "pad" /\ pc \in {"padded", "unpadded"}) =>
          /\ Len(padded) % BLOCK_SIZE = 0
          /\ Len(padded) > Len(plain_text)
    /\ (mode = "pad" /\ pc = "unpadded") => result = Ok(plain_text)

C4_Witness ==
    /\ mode = "pad"
    /\ pc = "unpadded"
    /\ Len(plain_text) = BLOCK_SIZE
    /\ plain_text[Len(plain_text)] = 5
    /\ Len(padded) = 2 * BLOCK_SIZE
    /\ result = Ok(plain_text)

\* C5: CTR length preservation.  The output of ctr_encrypt is the drawn nonce
\* followed by exactly len(p) bytes; for the empty plaintext it is the nonce.
C5_CtrLength ==
    (mode = "ctr" /\ pc = "encrypted" /\ alter = "none") =>
        /\ Len(cipher_text) = NONCE_SIZE + Len(plain_text)
        /\ SubSeq(cipher_text, 1, NONCE_SIZE) = rand
        /\ (plain_text = <<>> => cipher_text = rand)

C5_Witness ==
    /\ mode = "ctr"
    /\ pc = "encrypted"
    /\ alter = "none"
    /\ Len(plain_text) = BLOCK_SIZE + 1
    /\ Len(cipher_text) = NONCE_SIZE + BLOCK_SIZE + 1

\* C6: ECB/CBC ciphertext layout.  With n = ceil((len(p) + 1) / 16) >= 1,
\* ecb_encrypt returns 16 * n bytes; cbc_encrypt returns 16 * (n + 1) bytes
\* whose first block is the drawn IV, and whose second block is the
\* encryption of the first padded plaintext block XORed with that IV.
C6_Layout ==
    LET n == Ceil(Len(plain_text) + 1, BLOCK_SIZE)
    IN  /\ (mode = "ecb" /\ pc = "encrypted" /\ alter = "none") =>
              /\ n >= 1
              /\ Len(cipher_text) = BLOCK_SIZE * n
        /\ (mode = "cbc" /\ pc = "encrypted" /\ alter = "none") =>
              /\ n >= 1
              /\ Len(cipher_text) = BLOCK_SIZE * (n + 1)
              /\ SubSeq(cipher_text, 1, BLOCK_SIZE) = rand
              /\ SubSeq(cipher_text, BLOCK_SIZE + 1, 2 * BLOCK_SIZE) =
                    aes_encrypt(xor_block_bytes(PaddedBlocks[1], rand), key)

C6_Witness ==
    /\ mode = "cbc"
    /\ pc = "encrypted"
    /\ alter = "none"
    /\ Len(plain_text) = 2 * BLOCK_SIZE
    /\ Len(cipher_text) = 4 * BLOCK_SIZE
    /\ rand # [i \in 1..BLOCK_SIZE |-> 0]
    /\ SubSeq(cipher_text, 1, BLOCK_SIZE) = rand

\* C7: CBC error propagation.  When ciphertext block i >= 1 (the IV being
\* block 0) of a cbc_encrypt output is changed, the blocks cbc_decrypt's loop
\* produces differ from the padded plaintext blocks exactly at i and, when
\* there is one, at i + 1.
C7_CbcErrorPropagation ==
    (mode = "cbc" /\ pc = "decrypted" /\ alter = "block") =>
        /\ changed >= 1
        /\ Len(dec_blocks) = Len(PaddedBlocks)
        /\ \A j \in 1..Len(PaddedBlocks) :
              (dec_blocks[j] # PaddedBlocks[j]) <=> (j = changed \/ j = changed + 1)

C7_Witness ==
    /\ mode = "cbc"
    /\ pc = "decrypted"
    /\ alter = "block"
    /\ changed = 1
    /\ Len(dec_blocks) = 3
    /\ dec_blocks[1] # PaddedBlocks[1]
    /\ dec_blocks[2] # PaddedBlocks[2]
    /\ dec_blocks[3] = PaddedBlocks[3]

\* The keystream of chunk c (from 1) as the forward direction builds it from
\* the nonce at the head of the ciphertext.
ForwardKeystream(c) ==
    aes_encrypt(counter_block(SubSeq(cipher_text, 1, NONCE_SIZE), c - 1), key)

\* C8: CTR decryption uses the forward keystream.  Chunk c of the output of
\* ctr_decrypt is ciphertext chunk c XORed with the leading bytes of
\* aes_encrypt(nonce | c as 8-byte little-endian, key).
C8_CtrDecryptForward ==
    (mode = "ctr" /\ pc = "decrypted" /\ ~result.panic) =>
        LET body == chunks(SubSeq(cipher_text, NONCE_SIZE + 1, Len(cipher_text)))
            out == chunks(result.val)
        IN  /\ Len(out) = Len(body)
            /\ \A c \in 1..Len(body) :
                  out[c] = xor_chunk(body[c], ForwardKeystream(c))

\* The buffer un_pad was called on.
UnPadArg == IF mode = "pad" THEN padded ELSE plain_text

\* C9: un_pad fallback.  un_pad(d) drops the last p bytes when d is non-empty
\* and its last byte p has 1 <= p <= BLOCK_SIZE and p <= len(d); otherwise it
\* returns d unchanged.  It never fails.
C9_UnPadFallback ==
    (pc = "unpadded") =>
        LET d == UnPadArg
            len == Len(d)
        IN  /\ ~result.panic
            /\ IF len > 0 /\ 1 <= d[len] /\ d[len] <= BLOCK_SIZE /\ d[len] <= len
               THEN result.val = SubSeq(d, 1, len - d[len])
               ELSE result.val = d

C9_Witness ==
    /\ mode = "un_pad"
    /\ pc = "unpadded"
    /\ Len(plain_text) = 5
    /\ plain_text[5] = 5
    /\ plain_text[1] # 5
    /\ result = Ok(<<>>)

\* C10: truncated ciphertext.  cbc_decrypt of fewer than 16 bytes and
\* ctr_decrypt of fewer than 8 bytes fail; at exactly 16 and 8 bytes they
\* return the empty plaintext.
C10_Truncated ==
    (pc = "decrypted") =>
        /\ (mode = "cbc" /\ Len(cipher_text) < BLOCK_SIZE) => result.panic
        /\ (mode = "ctr" /\ Len(cipher_text) < NONCE_SIZE) => result.panic
        /\ (mode = "cbc" /\ Len(cipher_text) = BLOCK_SIZE) => result = Ok(<<>>)
        /\ (mode = "ctr" /\ Len(cipher_text) = NONCE_SIZE) => result = Ok(<<>>)

C10_Witness ==
    /\ pc = "decrypted"
    /\ mode = "cbc"
    /\ alter = "trunc"
    /\ Len(cipher_text) = BLOCK_SIZE - 1
    /\ result.panic

====
